---- MODULE Spec2Model ----
(***************************************************************************)
(* Model of examples/benchmark_fibonacci.py: the recursive function fib,   *)
(* the timing wrapper benchmark, and the module-level script that calls    *)
(* benchmark(15), benchmark(20), benchmark(25) and prints the results.     *)
(*                                                                         *)
(* Three specifications share the model of benchmark and fib:              *)
(*   Spec       the script as written, fib evaluated in one step by the    *)
(*              recursive operator Fib (fib(25) alone makes 242785 calls); *)
(*   SpecFib    a caller that calls benchmark(n) up to MaxCalls times with *)
(*              n drawn from FibInputs, fib evaluated frame by frame on an *)
(*              explicit call stack;                                       *)
(*   SpecRepeat a caller that repeats calls with small inputs, or makes    *)
(*              the script's three calls in any order, while the pairs     *)
(*              (n, result) of the calls that returned are kept in order.  *)
(* SpecAll is the union of Spec and SpecFib with the fairness of           *)
(* sequential execution.                                                   *)
(***************************************************************************)
EXTENDS Integers, Sequences, FiniteSets, TLC

VARIABLES
  pc,        \* script: index of the next statement of Script (0: no script)
  hpc,       \* caller: "off" (the script), "idle", "called", "returned",
             \* "crashed"; "ridle", "rcalled", "rreturned" when calls are repeated
  out,       \* the lines printed on standard output
  result,    \* the global result: the first target of result, elapsed = benchmark(n)
  elapsed,   \* the global elapsed: the second target
  exit,      \* the process's exit status, Unbound while it runs
  bench,     \* benchmark's frame: pc, n, start, result, elapsed_ms
  stack,     \* fib's frames, the innermost last
  events,    \* what the current benchmark call did so far (clock, call, return)
  maxdepth,  \* the most fib frames active at once in the current evaluation
  fibcalls,  \* the fib frames created by the current evaluation
  history,   \* the input and the result of every call that returned, in order
  ncalls     \* caller: the benchmark calls made

vars == << pc, hpc, out, result, elapsed, exit, bench, stack, events,
           maxdepth, fibcalls, history, ncalls >>

\* ---------------------------------------------------------------- bounds
\* Largest and smallest (-MaxNeg) small input of a caller, the number of
\* benchmark calls a caller makes, the largest clock reading (in ticks) and
\* the resolution of the clock readings: a tick is 2^-TickBits seconds.
MaxN == 4
MaxNeg == 1
MaxCalls == 3
MaxTick == 2
TickBits == 10

\* ------------------------------------------------------ program constants
\* The factor of line 20: seconds to milliseconds.
MsPerSecond == 1000
\* Python frames below the first fib frame: the module and benchmark.
CallerDepth == 2
\* A faulty variant: a recursion limit of 22 frames, as sys.setrecursionlimit(22).
RecursionLimitLow == CallerDepth + 20
\* CPython's default sys.getrecursionlimit(): the script never changes it.
RecursionLimit == 1000

\* time.time() returns a double, in seconds.  The readings modelled are the
\* doubles t / TicksPerSecond for whole numbers t of ticks, with
\* TicksPerSecond a power of two (a tick of 1/1024 s is a little under a
\* millisecond): such a reading, the difference of two of them and that
\* difference times 1000 are all represented exactly in a double, so line 20
\* computes on them without rounding.
TicksPerSecond == 2 ^ TickBits

\* A clock reading as a whole number of ticks.  time.time() is the wall
\* clock, which may be set back between two readings: any reading may follow
\* any other.
Ticks == 0 .. MaxTick

\* The smallest n whose evaluation exhausts the stack when fib is called
\* from benchmark called from the module.
DeepN == RecursionLimit - CallerDepth + 1

\* The inputs small enough to follow fib frame by frame.
SmallInputs == (0 - MaxNeg) .. MaxN

FibInputs == SmallInputs \cup {DeepN}

\* A Python name not bound yet, and a bound one.
Unbound == << >>
Bound(v) == << v >>
Val(x) == x[1]

Max(a, b) == IF a >= b THEN a ELSE b

\* int(x) of the rational a / b, b > 0: truncation toward zero.
PyInt(a, b) == IF a >= 0 THEN a \div b ELSE 0 - ((0 - a) \div b)

\* str() of an integer, as an f-string field formats it.
PyStr(i) == ToString(i)

\* ------------------------------------------------------------------- fib
\* Line 13's test, line 14's value, line 15's arguments and sum; with them,
\* the faulty variants the properties below are tried against.
\* A faulty variant: the test n <= 0.
FibBaseCaseZero(n) == n <= 0
FibBaseCase(n) == n <= 1
\* A faulty variant: return 1 in the base case.
FibBaseValueOne(n) == 1
\* A faulty variant: a base case that adds in the global result, which an
\* earlier result, elapsed = benchmark(n) has bound.
FibBaseValueStateful(n) == IF result = << >> THEN n ELSE n + result[1]
FibBaseValue(n) == n
FibLeftArg(n) == n - 1
\* A faulty variant: fib(n - 1) + fib(n - 1).
FibRightArgSame(n) == n - 1
FibRightArg(n) == n - 2
FibSum(a, b) == a + b

\* fib as one evaluation: the value it returns when the stack suffices.
RECURSIVE Fib(_)
Fib(n) == IF FibBaseCase(n) THEN FibBaseValue(n)
          ELSE FibSum(Fib(FibLeftArg(n)), Fib(FibRightArg(n)))

\* The deepest nesting of fib frames the evaluation of fib(n) asks for: the
\* chain fib(n), fib(n - 1), ..., fib(1) of first operands of line 15, one
\* frame when n <= 1.
FibDepth(n) == Max(n, 1)

\* The fib frames the evaluation of fib(n) creates when the stack suffices:
\* its own, and for n >= 2 those of the two calls of line 15.
RECURSIVE FibCalls(_)
FibCalls(n) == IF FibBaseCase(n) THEN 1
               ELSE 1 + FibCalls(FibLeftArg(n)) + FibCalls(FibRightArg(n))

\* The fib frames that fit under the recursion limit above benchmark's.  An
\* evaluation that asks for more creates exactly these, each the first
\* operand of the one below, before the next call raises RecursionError.
FibFramesToLimit == RecursionLimit - CallerDepth

\* ---------------------------------------------------------------- script
\* The module-level statements, lines 23 to 43, in execution order.
Script == <<
  [line |-> 23, op |-> "print",     n |-> 0,  text |-> "=== Fibonacci Benchmark (Recursive) ==="],
  [line |-> 26, op |-> "print",     n |-> 0,  text |-> "Computing fib(15) recursively..."],
  [line |-> 27, op |-> "benchmark", n |-> 15, text |-> ""],
  [line |-> 28, op |-> "printf",    n |-> 0,  text |-> "fib(15) = "],
  [line |-> 31, op |-> "print",     n |-> 0,  text |-> ""],
  [line |-> 32, op |-> "print",     n |-> 0,  text |-> "Computing fib(20) recursively..."],
  [line |-> 33, op |-> "benchmark", n |-> 20, text |-> ""],
  [line |-> 34, op |-> "printf",    n |-> 0,  text |-> "fib(20) = "],
  [line |-> 37, op |-> "print",     n |-> 0,  text |-> ""],
  [line |-> 38, op |-> "print",     n |-> 0,  text |-> "Computing fib(25) recursively (this may take a while)..."],
  [line |-> 39, op |-> "benchmark", n |-> 25, text |-> ""],
  [line |-> 40, op |-> "printf",    n |-> 0,  text |-> "fib(25) = "],
  [line |-> 42, op |-> "print",     n |-> 0,  text |-> ""],
  [line |-> 43, op |-> "print",     n |-> 0,  text |-> "=== Benchmark Complete ==="] >>

\* The inputs of the script's benchmark calls (lines 27, 33, 39): 15, 20, 25.
DriverInputs == { Script[i].n : i \in { j \in 1 .. Len(Script) : Script[j].op = "benchmark" } }

\* The f-strings of lines 28, 34, 40: f"fib(N) = {result} in {elapsed} ms".
FormatResult(prefix, r, e) == prefix \o PyStr(r) \o " in " \o PyStr(e) \o " ms"

NoFrame == [pc |-> "none", n |-> 0, start |-> Unbound, result |-> Unbound,
            elapsed_ms |-> Unbound]
BenchFrame(n) == [pc |-> "L18", n |-> n, start |-> Unbound, result |-> Unbound,
                  elapsed_ms |-> Unbound]

Event(e, v) == [e |-> e, v |-> v]

Running == exit = Unbound
AtStmt == pc \in 1 .. Len(Script) /\ bench.pc = "none" /\ Running
Stmt == Script[pc]

\* ------------------------------------------------------------- benchmark
\* A call benchmark(n): a fresh frame at line 18.
EnterBenchmark(n) ==
  /\ bench' = BenchFrame(n)
  /\ events' = << >>
  /\ maxdepth' = 0
  /\ fibcalls' = 0

\* Line 18: start = time.time().
BenchStart ==
  /\ Running
  /\ bench.pc = "L18"
  /\ \E t \in Ticks :
       /\ bench' = [bench EXCEPT !.pc = "L19", !.start = Bound(t)]
       /\ events' = Append(events, Event("clock", t))
  /\ UNCHANGED << pc, hpc, out, result, elapsed, exit, stack, maxdepth,
                  fibcalls, history, ncalls >>

\* Line 20: elapsed_ms = int((time.time() - start) * 1000), for readings of
\* start and end ticks: the double (end - start) / TicksPerSecond * 1000 is
\* exact, and int() truncates it toward zero.
ElapsedMs(start, end) == PyInt((end - start) * MsPerSecond, TicksPerSecond)

BenchElapsed ==
  /\ Running
  /\ bench.pc = "L20"
  /\ \E t \in Ticks :
       /\ bench' = [bench EXCEPT !.pc = "L21",
                                 !.elapsed_ms = Bound(ElapsedMs(Val(bench.start), t))]
       /\ events' = Append(events, Event("clock", t))
  /\ UNCHANGED << pc, hpc, out, result, elapsed, exit, stack, maxdepth,
                  fibcalls, history, ncalls >>

\* Line 21: return result, elapsed_ms; the caller unpacks the pair into its
\* globals result and elapsed (lines 27, 33, 39).
\* A faulty variant: the pair in the other order.
ReturnedPairSwapped == << Val(bench.elapsed_ms), Val(bench.result) >>
ReturnedPair == << Val(bench.result), Val(bench.elapsed_ms) >>

ReturnPair ==
  /\ Running
  /\ bench.pc = "L21"
  /\ result' = Bound(ReturnedPair[1])
  /\ elapsed' = Bound(ReturnedPair[2])
  /\ bench' = NoFrame

\* An uncaught RecursionError: no frame handles it, every frame is left and
\* the interpreter exits with status 1 after the traceback (on stderr).
Uncaught ==
  /\ stack' = << >>
  /\ bench' = NoFrame
  /\ exit' = Bound(1)

\* --------------------------------------------------- fib in one evaluation
\* Line 19 with fib evaluated in one step: the script's calls and any call
\* with one of the script's inputs; a call with another input is followed
\* frame by frame.  The step accounts for the frames the evaluation creates
\* and the depth it reaches.
InOneStep == hpc = "off" \/ bench.n \in DriverInputs

BenchFib ==
  /\ Running
  /\ InOneStep
  /\ bench.pc = "L19"
  /\ IF FibDepth(bench.n) <= FibFramesToLimit
       THEN /\ bench' = [bench EXCEPT !.pc = "L20", !.result = Bound(Fib(bench.n))]
            /\ events' = events \o << Event("call", bench.n),
                                      Event("return", Val(bench'.result)) >>
            /\ maxdepth' = FibDepth(bench.n)
            /\ fibcalls' = FibCalls(bench.n)
            /\ UNCHANGED << stack, exit >>
       ELSE /\ Uncaught
            /\ events' = Append(events, Event("call", bench.n))
            /\ maxdepth' = FibFramesToLimit
            /\ fibcalls' = FibFramesToLimit
  /\ UNCHANGED << pc, hpc, out, result, elapsed, history, ncalls >>

\* -------------------------------------------------- fib frame by frame
\* A fib frame: its argument, its position (L13: at the test; L15a: waiting
\* for fib(n - 1); L15b: about to call fib(n - 2); L15c: waiting for
\* fib(n - 2); L15d: about to return the sum), the two values of line 15,
\* and the arguments of the calls it has issued so far.
FibFrame(n) == [n |-> n, pc |-> "L13", a |-> 0, b |-> 0, issued |-> << >>]

Top == stack[Len(stack)]
Rest == SubSeq(stack, 1, Len(stack) - 1)

\* CPython raises RecursionError on a call that would make the depth exceed
\* the recursion limit.
CanPush == CallerDepth + Len(stack) + 1 <= RecursionLimit

\* The call fib(m) issued by the top frame, which moves to position at.
Push(m, at) ==
  /\ stack' = Append([stack EXCEPT ![Len(stack)] =
                        [@ EXCEPT !.pc = at, !.issued = Append(@, m)]],
                     FibFrame(m))
  /\ maxdepth' = Max(maxdepth, Len(stack) + 1)
  /\ fibcalls' = fibcalls + 1

\* The top frame returns v: to the frame below, which goes on with line 15,
\* or to benchmark, which binds result (line 19).
Return(v) ==
  IF Rest = << >>
    THEN /\ stack' = << >>
         /\ bench' = [bench EXCEPT !.pc = "L20", !.result = Bound(v)]
         /\ events' = Append(events, Event("return", v))
    ELSE /\ stack' = [Rest EXCEPT ![Len(Rest)] =
                        IF @.pc = "L15a" THEN [@ EXCEPT !.pc = "L15b", !.a = v]
                                         ELSE [@ EXCEPT !.pc = "L15d", !.b = v]]
         /\ UNCHANGED << bench, events >>

\* Line 19: result = fib(n), the call.
BenchCallFib ==
  /\ Running
  /\ ~InOneStep
  /\ bench.pc = "L19"
  /\ CanPush
  /\ stack' = << FibFrame(bench.n) >>
  /\ bench' = [bench EXCEPT !.pc = "L19w"]
  /\ events' = Append(events, Event("call", bench.n))
  /\ maxdepth' = 1
  /\ fibcalls' = 1
  /\ UNCHANGED << pc, hpc, out, result, elapsed, exit, history, ncalls >>

\* Lines 13-14: if n <= 1: return n.
FibBase ==
  /\ Running
  /\ stack # << >>
  /\ Top.pc = "L13"
  /\ FibBaseCase(Top.n)
  /\ Return(FibBaseValue(Top.n))
  /\ UNCHANGED << pc, hpc, out, result, elapsed, exit, maxdepth, fibcalls, history, ncalls >>

\* Line 15, first operand: the call fib(n - 1).
FibCallLeft ==
  /\ Running
  /\ stack # << >>
  /\ Top.pc = "L13"
  /\ ~FibBaseCase(Top.n)
  /\ CanPush
  /\ Push(FibLeftArg(Top.n), "L15a")
  /\ UNCHANGED << pc, hpc, out, result, elapsed, exit, bench, events, history, ncalls >>

\* Line 15, second operand: the call fib(n - 2).
FibCallRight ==
  /\ Running
  /\ stack # << >>
  /\ Top.pc = "L15b"
  /\ CanPush
  /\ Push(FibRightArg(Top.n), "L15c")
  /\ UNCHANGED << pc, hpc, out, result, elapsed, exit, bench, events, history, ncalls >>

\* Line 15: return the sum.
FibReturn ==
  /\ Running
  /\ stack # << >>
  /\ Top.pc = "L15d"
  /\ Return(FibSum(Top.a, Top.b))
  /\ UNCHANGED << pc, hpc, out, result, elapsed, exit, maxdepth, fibcalls, history, ncalls >>

\* A call of line 15 or 19 at the recursion limit: RecursionError, uncaught.
CallPending ==
  \/ bench.pc = "L19"
  \/ stack # << >> /\ Top.pc = "L13" /\ ~FibBaseCase(Top.n)
  \/ stack # << >> /\ Top.pc = "L15b"

FibRecursionError ==
  /\ Running
  /\ ~InOneStep
  /\ CallPending
  /\ ~CanPush
  /\ Uncaught
  /\ hpc' = "crashed"
  /\ UNCHANGED << pc, out, result, elapsed, events, maxdepth, fibcalls, history, ncalls >>

\* ---------------------------------------------------------------- callers
\* A caller other than the script: its next statement,
\* result, elapsed = benchmark(n), for any n of FibInputs.  The globals keep
\* the pair of the call before until this one returns.
SessionCall ==
  /\ Running
  /\ hpc \in {"idle", "returned"}
  /\ ncalls < MaxCalls
  /\ \E n \in FibInputs : EnterBenchmark(n)
  /\ hpc' = "called"
  /\ ncalls' = ncalls + 1
  /\ UNCHANGED << pc, out, result, elapsed, exit, stack, history >>

\* benchmark returns to the caller, which unpacks the pair.
ReturnToSession ==
  /\ hpc = "called"
  /\ ReturnPair
  /\ hpc' = "returned"
  /\ UNCHANGED << pc, out, exit, stack, events, maxdepth, fibcalls, history, ncalls >>

\* The argument of the benchmark call events describes.
LastArg == events[2].v

\* The inputs of the calls that have returned.
Called == { history[i].n : i \in DOMAIN history }

\* A caller that repeats calls: result, elapsed = benchmark(n) with n any
\* small input, whether called before or not, or with n one of the script's
\* inputs not called yet, so that the script's three calls are made in any
\* order.  One run stays with the small inputs or with the script's.
RepeatCall ==
  /\ Running
  /\ hpc \in {"ridle", "rreturned"}
  /\ ncalls < MaxCalls
  /\ \E n \in SmallInputs \cup DriverInputs :
       /\ \/ n \in SmallInputs /\ Called \subseteq SmallInputs
          \/ n \in DriverInputs \ Called /\ Called \subseteq DriverInputs
       /\ EnterBenchmark(n)
  /\ hpc' = "rcalled"
  /\ ncalls' = ncalls + 1
  /\ UNCHANGED << pc, out, result, elapsed, exit, stack, history >>

\* benchmark returns to the caller, which unpacks the pair; the input and
\* the result received are added to the history.
ReturnToRepeat ==
  /\ hpc = "rcalled"
  /\ ReturnPair
  /\ history' = Append(history, [n |-> bench.n, result |-> Val(result')])
  /\ hpc' = "rreturned"
  /\ UNCHANGED << pc, out, exit, stack, events, maxdepth, fibcalls, ncalls >>

\* ---------------------------------------------------------------- script
\* print: one more line on standard output.
\* A faulty variant: a print() that prints nothing.
PrintedNoBlank(text) == IF text = "" THEN out ELSE Append(out, text)
Printed(text) == Append(out, text)

\* print(text), lines 23, 26, 31, 32, 37, 38, 42, 43.
PrintLine ==
  /\ AtStmt
  /\ Stmt.op = "print"
  /\ out' = Printed(Stmt.text)
  /\ pc' = pc + 1
  /\ UNCHANGED << hpc, result, elapsed, exit, bench, stack, events, maxdepth,
                  fibcalls, history, ncalls >>

\* print(f"fib(N) = {result} in {elapsed} ms"), lines 28, 34, 40.
PrintResult ==
  /\ AtStmt
  /\ Stmt.op = "printf"
  /\ out' = Printed(FormatResult(Stmt.text, Val(result), Val(elapsed)))
  /\ pc' = pc + 1
  /\ UNCHANGED << hpc, result, elapsed, exit, bench, stack, events, maxdepth,
                  fibcalls, history, ncalls >>

\* result, elapsed = benchmark(N), lines 27, 33, 39: the call.
CallBenchmark ==
  /\ AtStmt
  /\ Stmt.op = "benchmark"
  /\ EnterBenchmark(Stmt.n)
  /\ UNCHANGED << pc, hpc, out, result, elapsed, exit, stack, history, ncalls >>

\* Lines 27, 33, 39: benchmark returns and the pair is unpacked.
ReturnToScript ==
  /\ pc \in 1 .. Len(Script)
  /\ ReturnPair
  /\ pc' = pc + 1
  /\ UNCHANGED << hpc, out, exit, stack, events, maxdepth, fibcalls, history, ncalls >>

\* The end of the module: the interpreter exits with status 0.
ScriptExit ==
  /\ Running
  /\ pc = Len(Script) + 1
  /\ exit' = Bound(0)
  /\ UNCHANGED << pc, hpc, out, result, elapsed, bench, stack, events, maxdepth,
                  fibcalls, history, ncalls >>

Init ==
  /\ pc = 1
  /\ hpc = "off"
  /\ out = << >>
  /\ result = Unbound
  /\ elapsed = Unbound
  /\ exit = Unbound
  /\ bench = NoFrame
  /\ stack = << >>
  /\ events = << >>
  /\ maxdepth = 0
  /\ fibcalls = 0
  /\ history = << >>
  /\ ncalls = 0

Next ==
  \/ PrintLine
  \/ PrintResult
  \/ CallBenchmark
  \/ BenchStart
  \/ BenchFib
  \/ BenchElapsed
  \/ ReturnToScript
  \/ ScriptExit

Spec == Init /\ [][Next]_vars

InitFib ==
  /\ pc = 0
  /\ hpc = "idle"
  /\ out = << >>
  /\ result = Unbound
  /\ elapsed = Unbound
  /\ exit = Unbound
  /\ bench = NoFrame
  /\ stack = << >>
  /\ events = << >>
  /\ maxdepth = 0
  /\ fibcalls = 0
  /\ history = << >>
  /\ ncalls = 0

NextFib ==
  \/ SessionCall
  \/ BenchStart
  \/ BenchCallFib
  \/ FibBase
  \/ FibCallLeft
  \/ FibCallRight
  \/ FibReturn
  \/ FibRecursionError
  \/ BenchElapsed
  \/ ReturnToSession

SpecFib == InitFib /\ [][NextFib]_vars

InitRepeat ==
  /\ pc = 0
  /\ hpc = "ridle"
  /\ out = << >>
  /\ result = Unbound
  /\ elapsed = Unbound
  /\ exit = Unbound
  /\ bench = NoFrame
  /\ stack = << >>
  /\ events = << >>
  /\ maxdepth = 0
  /\ fibcalls = 0
  /\ history = << >>
  /\ ncalls = 0

NextRepeat ==
  \/ RepeatCall
  \/ BenchStart
  \/ BenchFib
  \/ BenchCallFib
  \/ FibBase
  \/ FibCallLeft
  \/ FibCallRight
  \/ FibReturn
  \/ BenchElapsed
  \/ ReturnToRepeat

SpecRepeat == InitRepeat /\ [][NextRepeat]_vars

\* The script and the caller of SpecFib together, under the fairness of sequential
\* execution: a single thread always takes its next step.
InitAll == Init \/ InitFib
NextAll == Next \/ NextFib
SpecAll == InitAll /\ [][NextAll]_vars /\ WF_vars(NextAll)

\* ==================================================================
\* Reference definitions used by the properties below.

\* The Fibonacci sequence computed iteratively: F(0) = 0, F(1) = 1.
RECURSIVE FibIter(_, _, _)
FibIter(i, a, b) == IF i = 0 THEN a ELSE FibIter(i - 1, b, a + b)
FibRef(n) == FibIter(n, 0, 1)

\* The calls a double recursion without memoization makes for fib(n).
RECURSIVE CallCount(_)
CallCount(n) == IF n <= 1 THEN 1 ELSE 1 + CallCount(n - 1) + CallCount(n - 2)

\* Floor of the rational a / b, b > 0.
Floor(a, b) == a \div b

\* Every value elapsed_ms can take with readings in Ticks.
ElapsedRange == { ElapsedMs(s, t) : s \in Ticks, t \in Ticks }

IsPrefix(s, t) == Len(s) <= Len(t) /\ \A i \in 1 .. Len(s) : s[i] = t[i]

\* ------------------------------------------------------------------ C1
\* C1: for every n in 0..MaxN the value fib(n) returns, frame by frame or as
\* one evaluation of Fib, is the nth Fibonacci number of the iterative
\* reference, fib(0) = 0, fib(1) = 1, fib(2) = 1, and the two values a frame
\* fib(n), n >= 2, adds are fib(n-1) and fib(n-2).
C1_FibMatchesReference ==
  /\ bench.pc = "L20" /\ bench.n \in 0 .. MaxN =>
       /\ Val(bench.result) = FibRef(bench.n)
       /\ Fib(bench.n) = FibRef(bench.n)
       /\ bench.n = 0 => Val(bench.result) = 0
       /\ bench.n = 1 => Val(bench.result) = 1
       /\ bench.n = 2 => Val(bench.result) = 1
  /\ stack # << >> /\ Top.n \in 2 .. MaxN =>
       /\ Top.pc = "L15b" => Top.a = FibRef(Top.n - 1)
       /\ Top.pc = "L15d" => /\ Top.a = FibRef(Top.n - 1)
                             /\ Top.b = FibRef(Top.n - 2)

C1_Witness ==
  /\ bench.pc = "L20"
  /\ bench.n = 4
  /\ bench.result = Bound(3)

\* ------------------------------------------------------------------ C2
\* C2: the results the script obtains from benchmark(15), benchmark(20) and
\* benchmark(25), and prints in its result lines, are 610, 6765 and 75025.
C2_DriverResults ==
  /\ pc \in 4 .. 7 => result = Bound(610)
  /\ pc \in 8 .. 11 => result = Bound(6765)
  /\ pc >= 12 => result = Bound(75025)
  /\ Len(out) >= 3 =>
       \E e \in ElapsedRange : out[3] = "fib(15) = 610 in " \o ToString(e) \o " ms"
  /\ Len(out) >= 6 =>
       \E e \in ElapsedRange : out[6] = "fib(20) = 6765 in " \o ToString(e) \o " ms"
  /\ Len(out) >= 9 =>
       \E e \in ElapsedRange : out[9] = "fib(25) = 75025 in " \o ToString(e) \o " ms"

C2_Witness ==
  /\ exit = Bound(0)
  /\ result = Bound(75025)
  /\ Len(out) = 11
  /\ maxdepth = 25
  /\ fibcalls = 242785

\* ------------------------------------------------------------------ C3
\* The output of a full run with elapsed times e1, e2, e3.
ExpectedOut(e1, e2, e3) == <<
  "=== Fibonacci Benchmark (Recursive) ===",
  "Computing fib(15) recursively...",
  "fib(15) = " \o ToString(FibRef(15)) \o " in " \o ToString(e1) \o " ms",
  "",
  "Computing fib(20) recursively...",
  "fib(20) = " \o ToString(FibRef(20)) \o " in " \o ToString(e2) \o " ms",
  "",
  "Computing fib(25) recursively (this may take a while)...",
  "fib(25) = " \o ToString(FibRef(25)) \o " in " \o ToString(e3) \o " ms",
  "",
  "=== Benchmark Complete ===" >>

Announcements == { "Computing fib(15) recursively...",
                   "Computing fib(20) recursively...",
                   "Computing fib(25) recursively (this may take a while)..." }
ResultLines ==
  { "fib(" \o ToString(n) \o ") = " \o ToString(FibRef(n)) \o " in " \o ToString(e) \o " ms" :
      n \in {15, 20, 25}, e \in ElapsedRange }

\* The announcement and result lines among the lines printed.
AnnounceOrResult == { i \in 1 .. Len(out) : out[i] \in Announcements \cup ResultLines }

\* The output is always a prefix of the one fixed sequence; benchmark runs
\* only right after the announcement of its input and before its result line.
OutputInOrder ==
  /\ \E e1 \in ElapsedRange, e2 \in ElapsedRange, e3 \in ElapsedRange :
       IsPrefix(out, ExpectedOut(e1, e2, e3))
  /\ bench.pc # "none" =>
       \/ bench.n = 15 /\ Len(out) = 2
       \/ bench.n = 20 /\ Len(out) = 5
       \/ bench.n = 25 /\ Len(out) = 8
  /\ exit = Bound(0) => Len(out) = 11

\* C3 as stated: the fixed order, and nine result/announcement lines in a
\* full run.
C3_Original ==
  /\ OutputInOrder
  /\ exit = Bound(0) => Cardinality(AnnounceOrResult) = 9

\* C3, amended: the fixed order; a full run prints six result/announcement
\* lines (three announcements, three result lines), which with the three
\* blank lines are the nine lines between the banners, eleven lines in all.
C3_OutputOrder ==
  /\ OutputInOrder
  /\ exit = Bound(0) =>
       /\ Cardinality(AnnounceOrResult) = 6
       /\ Cardinality({ i \in 1 .. Len(out) : out[i] = "" }) = 3
       /\ AnnounceOrResult \cup { i \in 1 .. Len(out) : out[i] = "" } = 2 .. 10

C3_Witness ==
  /\ exit = Bound(0)
  /\ Len(out) = 11
  /\ out[11] = "=== Benchmark Complete ==="

\* ------------------------------------------------------------------ C4
\* C4: the elapsed_ms benchmark computes from its two readings of
\* time.time() is never negative.
C4_ElapsedNonNegative ==
  bench.elapsed_ms # Unbound => Val(bench.elapsed_ms) >= 0

\* ------------------------------------------------------------------ C5
\* C5: elapsed_ms is the floor of the elapsed milliseconds (end - start),
\* never rounded up.
C5_ElapsedIsFloor ==
  bench.pc = "L21" =>
    Val(bench.elapsed_ms) =
      Floor((events[4].v - events[1].v) * MsPerSecond, TicksPerSecond)

\* ------------------------------------------------------------------ C6
\* C6: for every n <= 1, negative n included, fib(n) returns n with no
\* recursive call (one frame in all) and raises no error.
C6_BaseCaseReturnsN ==
  /\ bench.pc = "L19w" /\ bench.n <= 1 =>
       /\ Len(stack) = 1
       /\ Top.pc = "L13"
       /\ fibcalls = 1
  /\ bench.pc = "L20" /\ bench.n <= 1 =>
       /\ Val(bench.result) = bench.n
       /\ Fib(bench.n) = bench.n
       /\ fibcalls = 1
       /\ maxdepth = 1
  /\ hpc = "crashed" => events[2].v > 1

C6_Witness ==
  /\ bench.pc = "L20"
  /\ bench.n = 0 - 1
  /\ bench.result = Bound(0 - 1)
  /\ fibcalls = 1

\* ------------------------------------------------------------------ C7
\* C7: a call benchmark(n) reads the clock, makes one top-level call fib(n),
\* reads the clock again and returns (result, elapsed_ms) with result the
\* value fib(n) returned; it prints nothing, and fib frames are active only
\* between the call and its return, so at neither clock reading.
C7_BenchmarkSequence ==
  /\ hpc # "off" => out = << >>
  /\ stack # << >> => bench.pc = "L19w" /\ stack[1].n = bench.n
  /\ bench.pc = "L18" => events = << >>
  /\ bench.pc = "L19" =>
       /\ Len(events) = 1
       /\ events[1] = Event("clock", Val(bench.start))
  /\ bench.pc = "L19w" =>
       /\ Len(events) = 2
       /\ events[2] = Event("call", bench.n)
       /\ stack # << >>
  /\ bench.pc = "L20" =>
       /\ Len(events) = 3
       /\ events[3] = Event("return", Val(bench.result))
  /\ bench.pc = "L21" =>
       /\ Len(events) = 4
       /\ events[4].e = "clock"
       /\ Val(bench.elapsed_ms) = ElapsedMs(events[1].v, events[4].v)
  /\ hpc = "returned" =>
       /\ Len(events) = 4
       /\ << events[1].e, events[2].e, events[3].e, events[4].e >>
            = << "clock", "call", "return", "clock" >>
       /\ result = Bound(events[3].v)
       /\ elapsed = Bound(ElapsedMs(events[1].v, events[4].v))

C7_Witness ==
  /\ hpc = "returned"
  /\ events[2].v = 4
  /\ result = Bound(3)
  /\ elapsed = Bound(1)

\* ------------------------------------------------------------------ C8
\* C8 as stated: every call fib(n) returns and every run ends normally: no
\* run ends in an error.
C8_Original == exit # Bound(1)

\* A run is over: the process has exited, or the caller has made its calls
\* and the last of them has returned.
Terminated == exit # Unbound \/ (hpc = "returned" /\ ncalls = MaxCalls)

\* C8, amended: every run ends, so every call fib(n) returns or raises after
\* finitely many calls; a call made from benchmark returns only if its depth
\* FibDepth(n) fits under the recursion limit and ends in an uncaught
\* RecursionError (exit status 1) only if it does not; the script, whose
\* inputs are 15, 20 and 25, never ends in an error: it ends with the closing
\* banner printed and exit status 0.
C8_Termination ==
  /\ <>Terminated
  /\ [](bench.pc = "L20" => CallerDepth + FibDepth(bench.n) <= RecursionLimit)
  /\ [](hpc = "crashed" => /\ exit = Bound(1)
                           /\ CallerDepth + FibDepth(LastArg) > RecursionLimit)
  /\ [](hpc = "off" => exit # Bound(1))
  /\ [](hpc = "off" /\ exit # Unbound => /\ exit = Bound(0)
                                         /\ Len(out) = 11
                                         /\ out[11] = "=== Benchmark Complete ===")

C8_Witness ==
  /\ hpc = "off"
  /\ exit = Bound(0)
  /\ out[Len(out)] = "=== Benchmark Complete ==="

\* ------------------------------------------------------------------ C9
\* C9: whatever calls were made before or between them, and whatever the
\* globals result and elapsed hold from those calls, two calls with the same
\* n return the same result, each call returns what a first call with its n
\* returns (the Fibonacci number of n, or n itself when n <= 1), and the
\* script's three calls made in any order return what they return in the
\* script's order: 610 for 15, 6765 for 20 and 75025 for 25.
C9_Deterministic ==
  /\ \A i \in DOMAIN history : \A j \in DOMAIN history :
       history[i].n = history[j].n => history[i].result = history[j].result
  /\ \A i \in DOMAIN history :
       /\ history[i].n = 15 => history[i].result = 610
       /\ history[i].n = 20 => history[i].result = 6765
       /\ history[i].n = 25 => history[i].result = 75025
       /\ history[i].result = IF history[i].n <= 1 THEN history[i].n
                                                  ELSE FibRef(history[i].n)
  /\ hpc = "rcalled" /\ bench.result # Unbound =>
       \A i \in DOMAIN history :
         history[i].n = bench.n => history[i].result = Val(bench.result)
  /\ hpc = "rreturned" =>
       /\ history # << >>
       /\ result = Bound(history[Len(history)].result)
       /\ history[Len(history)].n = LastArg

\* The script's three calls in the reverse of the script's order.
C9_Witness ==
  /\ hpc = "rreturned"
  /\ history = << [n |-> 25, result |-> 75025],
                  [n |-> 20, result |-> 6765],
                  [n |-> 15, result |-> 610] >>
  /\ result = Bound(610)

\* ----------------------------------------------------------------- C10
\* C10: at most max(n, 1) fib frames are active at once while fib(n) is
\* evaluated, an evaluation that returns has reached that depth and made the
\* CallCount(n) calls of a double recursion without memoization (the count
\* FibCalls(n) the one-step evaluation accounts for), and a frame
\* fib(k), k >= 2, issues fib(k - 1) and then fib(k - 2) before it returns.
C10_DepthLinear ==
  /\ bench.pc = "L19w" =>
       /\ Len(stack) <= Max(bench.n, 1)
       /\ maxdepth <= Max(bench.n, 1)
  /\ bench.pc = "L20" =>
       /\ maxdepth = Max(bench.n, 1)
       /\ maxdepth = FibDepth(bench.n)
       /\ fibcalls = CallCount(bench.n)
       /\ fibcalls = FibCalls(bench.n)
  /\ stack # << >> =>
       /\ Top.pc = "L13" => Top.issued = << >>
       /\ Top.pc = "L15b" => Top.issued = << Top.n - 1 >>
       /\ Top.pc = "L15d" => Top.n >= 2 /\ Top.issued = << Top.n - 1, Top.n - 2 >>
  /\ Len(stack) >= 2 =>
       LET below == stack[Len(stack) - 1] IN
       /\ below.n >= 2
       /\ below.pc \in {"L15a", "L15c"}
       /\ below.pc = "L15a" => below.issued = << below.n - 1 >> /\ Top.n = below.n - 1
       /\ below.pc = "L15c" =>
            below.issued = << below.n - 1, below.n - 2 >> /\ Top.n = below.n - 2

C10_Witness ==
  /\ bench.pc = "L20"
  /\ bench.n = 4
  /\ maxdepth = 4
  /\ fibcalls = 9

====
